---- MODULE Spec2Model ----
(***************************************************************************)
(* Address mappers of ramulator2-backup:                                   *)
(*   HBM_PsBg_RoBaRaCoCh  (src/addr_mapper/impl/hbm_psbg_mapper.cpp)       *)
(*   HBM4_GroupMapper     (src/addr_mapper/impl/hbm4_group_mapper.cpp)     *)
(* One mapper instance is modelled at a time (impl says which class it     *)
(* is); the simulator calls setup(ms) and apply(req) on it serially.       *)
(*                                                                         *)
(* Level indices and vector slots are 0-based as in the C++ code; a TLA+   *)
(* sequence holds slot i at position i + 1.                                *)
(***************************************************************************)
EXTENDS Integers, Sequences, FiniteSets, TLC

----------------------------------------------------------------------------
(* Bounds of the model *)

\* Requests to the linear mapper address the 64-byte blocks 0..MaxUnit.
MaxUnit == 40

\* Requests to the grouped mapper address every third block, 0..3*MaxStep.
MaxStep == 11

\* Cap on the process-wide call counter `seen` of HBM4_GroupMapper::apply.
MaxCalls == 2

----------------------------------------------------------------------------
(* Program constants *)

\* int m_active_channels = 16;
m_active_channels == 16

\* int m_group_sel_lsb = 10;
m_group_sel_lsb == 10

\* static uint64_t hist[64]
HistSize == 64

Linear == "HBM_PsBg_RoBaRaCoCh"
Grouped == "HBM4_GroupMapper"

\* IDRAM* m_dram = nullptr;
NoDram == "nullptr"

----------------------------------------------------------------------------
(* Integer helpers of base/utils (not part of the two files), on the       *)
(* non-negative values the mappers hand them.                              *)

RECURSIVE calc_log2(_)
calc_log2(val) == IF val <= 1 THEN 0 ELSE 1 + calc_log2(val \div 2)

Pow2(n) == 2 ^ n

\* x >> n
ShiftRight(x, n) == x \div Pow2(n)

\* slice_lower_bits(addr, bits): the value returned ...
slice_lower_bits(addr, bits) == addr % Pow2(bits)

\* ... and what it leaves in addr.
slice_rest(addr, bits) == ShiftRight(addr, bits)

Max(a, b) == IF a >= b THEN a ELSE b

Min(a, b) == IF a <= b THEN a ELSE b

----------------------------------------------------------------------------
(* The device models a memory system can hand to setup(): what the mappers *)
(* read of IDRAM (m_levels, m_organization.count, m_internal_prefetch_size,*)
(* m_channel_width).                                                       *)

Dram(lv, cnt, pf, cw) ==
  [levels |-> lv, count |-> cnt, prefetch |-> pf, channel_width |-> cw]

Devices ==
  [ \* the regression geometry: 4 levels, 64-byte transfers
    scenario |-> Dram(<<"channel", "bank", "row", "column">>,
                      <<16, 16, 32768, 1024>>, 8, 64),
    \* six HBM levels, both optional levels populated, a single channel
    hbm      |-> Dram(<<"channel", "pseudochannel", "bankgroup", "bank", "row", "column">>,
                      <<1, 2, 2, 2, 4, 16>>, 8, 64),
    \* a pseudochannel level with a single entry, prefetch larger than the column count
    legacy   |-> Dram(<<"channel", "pseudochannel", "bank", "row", "column">>,
                      <<2, 1, 2, 2, 4>>, 8, 64),
    \* 32 channels, 64-byte transfers
    wide     |-> Dram(<<"channel", "bank", "row", "column">>,
                      <<32, 1, 2, 16>>, 8, 64),
    \* 32 channels, 128-byte transfers
    wide128  |-> Dram(<<"channel", "bank", "row", "column">>,
                      <<32, 1, 2, 16>>, 8, 128),
    \* one count more than there are levels
    mismatch |-> Dram(<<"channel", "bank", "row", "column">>,
                      <<2, 2, 2, 2, 16>>, 8, 64),
    \* no level named "row"
    norow    |-> Dram(<<"channel", "bank", "column">>,
                      <<2, 2, 16>>, 8, 64),
    \* organization not filled in yet
    empty    |-> Dram(<<"channel", "bank", "row", "column">>,
                      << >>, 8, 64) ]

DeviceIds == DOMAIN Devices

\* m_dram->m_levels(name): the level's position, -1 when the topology has none.
LevelIndex(d, name) ==
  IF \E i \in 1..Len(d.levels) : d.levels[i] = name
  THEN (CHOOSE i \in 1..Len(d.levels) : d.levels[i] = name) - 1
  ELSE -1

\* Request addresses: byte u inside the 64-byte block u (u * 64 + u), and
\* the block-aligned address 0x1000.
LinearAddrs == {u * 65 : u \in 0..MaxUnit} \cup {4096}

\* The grouped mapper keeps a histogram of every call, so its requests are
\* drawn more sparsely: byte 3k inside block 3k.
GroupedAddrs == {(3 * k) * 65 : k \in 0..MaxStep}

\* What a request's addr_vec can hold when apply is called: a fresh empty
\* vector, or the indices of an earlier use (longer than any level count).
StaleVecs == {<< >>, <<99, 99, 99, 99, 99, 99, 99>>}

----------------------------------------------------------------------------
VARIABLES
  impl,              \* which mapper class the instance is
  m_dram,            \* IDRAM* m_dram
  m_ready,           \* HBM_PsBg_RoBaRaCoCh::m_ready
  m_num_levels,      \* m_num_levels
  m_addr_bits,       \* m_addr_bits
  m_tx_offset,       \* m_tx_offset
  m_idx,             \* m_idx_channel, m_idx_pch, m_idx_bg, m_idx_bank, m_idx_row, m_idx_col
  m_row_bits_idx,    \* HBM4_GroupMapper::m_row_bits_idx
  m_col_bits_idx,    \* HBM4_GroupMapper::m_col_bits_idx
  m_total_channels,  \* HBM4_GroupMapper::m_total_channels
  hist,              \* static uint64_t hist[64] of HBM4_GroupMapper::apply
  seen,              \* static uint64_t seen    of HBM4_GroupMapper::apply
  req,               \* the request of the latest apply call: addr and addr_vec
  last,              \* the latest call and how it returned
  alive              \* FALSE once undefined behaviour has ended the process

vars == <<impl, m_dram, m_ready, m_num_levels, m_addr_bits, m_tx_offset, m_idx,
          m_row_bits_idx, m_col_bits_idx, m_total_channels, hist, seen, req, last, alive>>

NoIdx == [channel |-> -1, pch |-> -1, bg |-> -1, bank |-> -1, row |-> -1, col |-> -1]

Init ==
  /\ impl \in {Linear, Grouped}
  /\ m_dram = NoDram
  /\ m_ready = FALSE
  /\ m_num_levels = -1
  /\ m_addr_bits = << >>
  /\ m_tx_offset = -1
  /\ m_idx = NoIdx
  /\ m_row_bits_idx = -1
  /\ m_col_bits_idx = -1
  /\ m_total_channels = -1
  /\ hist = [c \in 0..(HistSize - 1) |-> 0]
  /\ seen = 0
  /\ req = [addr |-> 0, addr_vec |-> << >>]
  /\ last = [op |-> "none", status |-> "ok"]
  /\ alive = TRUE

----------------------------------------------------------------------------
(* HBM_PsBg_RoBaRaCoCh *)

\* The column width after the prefetch bits are taken off it.
ColumnBits(raw, p) == IF raw >= p THEN raw - p ELSE 0

\* log2 of the transfer size in bytes: prefetch * channel_width / 8.
TxOffset(d) == calc_log2((d.prefetch * d.channel_width) \div 8)

\* m_addr_bits[i] = calc_log2(count[i])
LevelBits(d) == [i \in 1..Len(d.count) |-> calc_log2(d.count[i])]

\* The six get_level(name) lookups.
LinearIdx(d) ==
  [channel |-> LevelIndex(d, "channel"),
   pch     |-> LevelIndex(d, "pseudochannel"),
   bg      |-> LevelIndex(d, "bankgroup"),
   bank    |-> LevelIndex(d, "bank"),
   row     |-> LevelIndex(d, "row"),
   col     |-> LevelIndex(d, "column")]

\* The body of ensure_initialized() past its first two checks, on the
\* members cur and the device d: the members as it leaves them, and whether
\* it threw.
BuildLinear(cur, d) ==
  IF Len(d.count) = 0 THEN [cur EXCEPT !.threw = TRUE]
  ELSE IF Len(d.count) # Len(d.levels) THEN [cur EXCEPT !.threw = TRUE]
  ELSE
    LET bits == LevelBits(d)
        idx  == LinearIdx(d)
        part == [cur EXCEPT !.num_levels = Len(d.count), !.addr_bits = bits, !.idx = idx]
    IN
    IF idx.channel < 0 \/ idx.bank < 0 \/ idx.row < 0 \/ idx.col < 0
    THEN [part EXCEPT !.threw = TRUE]
    ELSE [part EXCEPT
            !.addr_bits[idx.col + 1] = ColumnBits(bits[idx.col + 1], calc_log2(d.prefetch)),
            !.tx_offset = TxOffset(d),
            !.ready = TRUE]

\* The members of a freshly constructed HBM_PsBg_RoBaRaCoCh.
FreshLinear ==
  [threw |-> FALSE, ready |-> FALSE, num_levels |-> -1, addr_bits |-> << >>,
   tx_offset |-> -1, idx |-> NoIdx]

\* ensure_initialized() on the instance.
ensure_initialized ==
  LET cur == [threw |-> FALSE, ready |-> m_ready, num_levels |-> m_num_levels,
              addr_bits |-> m_addr_bits, tx_offset |-> m_tx_offset, idx |-> m_idx]
  IN
  IF m_ready THEN cur
  ELSE IF m_dram = NoDram THEN [cur EXCEPT !.threw = TRUE]
  ELSE BuildLinear(cur, Devices[m_dram])

\* The slicing order with bank taken before row.
LinearOrder_bankFirst == <<"channel", "bank", "row", "bg", "pch", "col">>

\* The order in which apply slices the levels, lowest address bits first.
LinearOrder == <<"channel", "row", "bank", "bg", "pch", "col">>

\* Whether apply slices level f at all: the optional levels only when
\* present with a non-zero width.
LinearSlices(g, f) ==
  IF f \in {"bg", "pch"} THEN g.idx[f] >= 0 /\ g.addr_bits[g.idx[f] + 1] > 0 ELSE TRUE

RECURSIVE LinearSlice(_, _, _, _)
LinearSlice(g, vec, addr, k) ==
  IF k > Len(LinearOrder) THEN vec
  ELSE
    LET f == LinearOrder[k] IN
    IF ~LinearSlices(g, f) THEN LinearSlice(g, vec, addr, k + 1)
    ELSE
      LET i == g.idx[f]
          w == g.addr_bits[i + 1]
      IN LinearSlice(g, [vec EXCEPT ![i + 1] = slice_lower_bits(addr, w)],
                     slice_rest(addr, w), k + 1)

\* req.addr_vec after apply: assign(m_num_levels, -1), then the slices of
\* req.addr >> m_tx_offset.
LinearVec(g, addr) ==
  LinearSlice(g, [i \in 1..g.num_levels |-> -1], ShiftRight(addr, g.tx_offset), 1)

\* setup(fe, ms): only takes the pointer.
LinearSetup(dev) ==
  /\ alive
  /\ impl = Linear
  /\ m_dram' = dev
  /\ last' = [op |-> "setup", status |-> "ok"]
  /\ UNCHANGED <<impl, m_ready, m_num_levels, m_addr_bits, m_tx_offset, m_idx,
                 m_row_bits_idx, m_col_bits_idx, m_total_channels, hist, seen, req, alive>>

\* apply(req) on a request with address addr whose addr_vec holds vec0.
LinearApply(addr, vec0) ==
  LET g == ensure_initialized IN
  /\ alive
  /\ impl = Linear
  /\ m_ready' = g.ready
  /\ m_num_levels' = g.num_levels
  /\ m_addr_bits' = g.addr_bits
  /\ m_tx_offset' = g.tx_offset
  /\ m_idx' = g.idx
  /\ IF g.threw
     THEN /\ req' = [addr |-> addr, addr_vec |-> vec0]
          /\ last' = [op |-> "apply", status |-> "error"]
     ELSE /\ req' = [addr |-> addr, addr_vec |-> LinearVec(g, addr)]
          /\ last' = [op |-> "apply", status |-> "ok"]
  /\ UNCHANGED <<impl, m_dram, m_row_bits_idx, m_col_bits_idx, m_total_channels,
                 hist, seen, alive>>

----------------------------------------------------------------------------
(* HBM4_GroupMapper *)

\* m_addr_bits after setup: the level widths, the last one less the
\* prefetch bits (no floor).
GroupedBits(d) ==
  LET n == Len(d.count) IN
  [i \in 1..n |-> IF i = n THEN calc_log2(d.count[i]) - calc_log2(d.prefetch)
                  ELSE calc_log2(d.count[i])]

\* setup(fe, ms): takes the pointer and builds the geometry at once.  With
\* an empty count vector, m_addr_bits[m_num_levels - 1] and count[0] are
\* accesses outside the vectors: undefined behaviour, which either ends the
\* process or goes on with whatever count[0] read.
GroupedSetup(dev) ==
  LET d == Devices[dev]
      n == Len(d.count)
  IN
  /\ alive
  /\ impl = Grouped
  /\ m_dram' = dev
  /\ m_num_levels' = n
  /\ m_addr_bits' = GroupedBits(d)
  /\ m_tx_offset' = TxOffset(d)
  /\ m_row_bits_idx' = LevelIndex(d, "row")
  /\ m_col_bits_idx' = n - 1
  /\ IF n = 0
     THEN /\ m_total_channels' \in {0, 1}
          /\ alive' \in BOOLEAN
          /\ last' = [op |-> "setup", status |-> "undefined"]
     ELSE /\ m_total_channels' = d.count[1]
          /\ alive' = alive
          /\ last' = [op |-> "setup", status |-> "ok"]
  /\ UNCHANGED <<impl, m_ready, m_idx, hist, seen, req>>

\* A: the active channels, clamped to the total.
ActiveChannels(C) == Max(1, Min(m_active_channels, C))

\* G: the number of groups.
GroupCount(C) == C \div ActiveChannels(C)

GroupBits(C) == IF GroupCount(C) > 1 THEN calc_log2(GroupCount(C)) ELSE 0

\* group_lsb_trx
GroupLsbTrx(tx) == Max(0, m_group_sel_lsb - tx)

\* group_id with the mask forgotten
GroupId_unmasked(a, lsb, bits) == IF bits > 0 THEN ShiftRight(a, lsb) ELSE 0

\* group_id
GroupId(a, lsb, bits) == IF bits > 0 THEN ShiftRight(a, lsb) % Pow2(bits) ELSE 0

IntraBits(C) == IF ActiveChannels(C) > 1 THEN calc_log2(ActiveChannels(C)) ELSE 0

\* intra_id
IntraId(a, bits) == IF bits > 0 THEN a % Pow2(bits) ELSE 0

\* ch with the group not scaled by A
CombineChannel_unscaled(group_id, A, intra_id) == group_id + intra_id

\* ch = group_id * A + intra_id
CombineChannel(group_id, A, intra_id) == group_id * A + intra_id

\* The channel apply writes to slot 0 for the normalized address a.
GroupedChannel(a, C, tx) ==
  CombineChannel(GroupId(a, GroupLsbTrx(tx), GroupBits(C)), ActiveChannels(C),
                 IntraId(a, IntraBits(C)))

\* req.addr_vec.resize(n, -1): keeps what the vector held.
Resize(vec, n) == [i \in 1..n |-> IF i <= Len(vec) THEN vec[i] ELSE -1]

\* for (lvl = 1; lvl <= m_row_bits_idx; ++lvl) addr_vec[lvl] = slice_lower_bits(b, bits[lvl])
RECURSIVE GroupedLoop(_, _, _)
GroupedLoop(vec, b, lvl) ==
  IF lvl > m_row_bits_idx THEN vec
  ELSE GroupedLoop([vec EXCEPT ![lvl + 1] = slice_lower_bits(b, m_addr_bits[lvl + 1])],
                   slice_rest(b, m_addr_bits[lvl + 1]), lvl + 1)

\* Step 6 of apply: the channel width is taken off, then the column, then
\* levels 1..m_row_bits_idx.
GroupedRest(vec, a) ==
  LET b1 == slice_rest(a, m_addr_bits[1])
      w  == m_addr_bits[m_col_bits_idx + 1]
  IN GroupedLoop([vec EXCEPT ![m_col_bits_idx + 1] = slice_lower_bits(b1, w)],
                 slice_rest(b1, w), 1)

\* Whether step 5 or 6 of apply leaves defined behaviour: a write to slot 0
\* of an empty vector, a shift by a negative width, a slot past the end.
GroupedUndefined ==
  \/ m_num_levels = 0
  \/ \E i \in 1..Len(m_addr_bits) : m_addr_bits[i] < 0
  \/ m_row_bits_idx >= m_num_levels

\* apply(req) on a request with address addr whose addr_vec holds vec0.
GroupedApply(addr, vec0) ==
  /\ alive
  /\ impl = Grouped
  /\ seen < MaxCalls
  /\ IF m_num_levels < 0
     THEN \* resize(size_t(-1)) throws std::length_error
          /\ req' = [addr |-> addr, addr_vec |-> vec0]
          /\ last' = [op |-> "apply", status |-> "error"]
          /\ UNCHANGED <<hist, seen, alive>>
     ELSE
       LET a   == ShiftRight(addr, m_tx_offset)
           ch  == GroupedChannel(a, m_total_channels, m_tx_offset)
           vec == Resize(vec0, m_num_levels)
       IN
       /\ hist' = IF ch < HistSize THEN [hist EXCEPT ![ch] = @ + 1] ELSE hist
       /\ seen' = seen + 1
       /\ IF GroupedUndefined
          THEN /\ alive' \in BOOLEAN
               /\ req' = [addr |-> addr, addr_vec |-> [i \in 1..m_num_levels |-> 99]]
               /\ last' = [op |-> "apply", status |-> "undefined"]
          ELSE /\ alive' = alive
               /\ req' = [addr |-> addr,
                          addr_vec |-> GroupedRest([vec EXCEPT ![1] = ch], a)]
               /\ last' = [op |-> "apply", status |-> "ok"]
  /\ UNCHANGED <<impl, m_dram, m_ready, m_num_levels, m_addr_bits, m_tx_offset, m_idx,
                 m_row_bits_idx, m_col_bits_idx, m_total_channels>>

----------------------------------------------------------------------------
Next ==
  \/ \E dev \in DeviceIds : LinearSetup(dev)
  \/ \E addr \in LinearAddrs, vec0 \in StaleVecs : LinearApply(addr, vec0)
  \/ \E dev \in DeviceIds : GroupedSetup(dev)
  \/ \E addr \in GroupedAddrs, vec0 \in StaleVecs : GroupedApply(addr, vec0)

Spec == Init /\ [][Next]_vars

\* The linear mapper alone.
InitLinear == Init /\ impl = Linear

NextLinear ==
  \/ \E dev \in DeviceIds : LinearSetup(dev)
  \/ \E addr \in LinearAddrs, vec0 \in StaleVecs : LinearApply(addr, vec0)

SpecLinear == InitLinear /\ [][NextLinear]_vars

\* The grouped mapper alone.
InitGrouped == Init /\ impl = Grouped

NextGrouped ==
  \/ \E dev \in DeviceIds : GroupedSetup(dev)
  \/ \E addr \in GroupedAddrs, vec0 \in StaleVecs : GroupedApply(addr, vec0)

SpecGrouped == InitGrouped /\ [][NextGrouped]_vars

----------------------------------------------------------------------------
(* Vocabulary of the properties *)

ApplyReturned == last = [op |-> "apply", status |-> "ok"]

\* The step is an apply call that returned normally.
ApplyStep == last' = [op |-> "apply", status |-> "ok"] /\ vars' # vars

\* The geometry of the instance.
Geometry ==
  <<m_num_levels, m_addr_bits, m_tx_offset, m_idx, m_row_bits_idx, m_col_bits_idx,
    m_total_channels>>

\* The geometry has been built: the linear mapper's flag, the grouped
\* mapper's setup having run.
Built == IF impl = Linear THEN m_ready ELSE m_num_levels >= 0

\* A device model the geometry builder has to accept: counts present, as
\* many as levels, and the four mandatory levels resolvable by name.
DeviceValid(dev) ==
  LET d == Devices[dev] IN
  /\ Len(d.count) > 0
  /\ Len(d.count) = Len(d.levels)
  /\ \A name \in {"channel", "bank", "row", "column"} : LevelIndex(d, name) >= 0

\* req.addr >> transferUnitShift
Normalized == req.addr \div (2 ^ m_tx_offset)

\* The slicing order of the linear strategy as the specification states it.
ClaimOrder == <<"channel", "row", "bank", "bg", "pch", "col">>

\* Width of the k-th level of that order; an absent level has none.
ClaimWidth(k) ==
  IF m_idx[ClaimOrder[k]] >= 0 THEN m_addr_bits[m_idx[ClaimOrder[k]] + 1] ELSE 0

RECURSIVE ClaimOffset(_)
ClaimOffset(k) == IF k <= 1 THEN 0 ELSE ClaimOffset(k - 1) + ClaimWidth(k - 1)

\* The slot of the k-th level of that order.
ClaimSlot(k) == req.addr_vec[m_idx[ClaimOrder[k]] + 1]

RECURSIVE Reconstruct(_)
\* The slots of levels k..6 put back at their bit positions.
Reconstruct(k) ==
  IF k > Len(ClaimOrder) THEN 0
  ELSE (IF ClaimWidth(k) = 0 THEN 0 ELSE ClaimSlot(k) * (2 ^ ClaimOffset(k)))
       + Reconstruct(k + 1)

IsPow2(n) == n >= 1 /\ 2 ^ calc_log2(n) = n

RECURSIVE SumBits(_)
SumBits(i) == IF i = 0 THEN 0 ELSE m_addr_bits[i] + SumBits(i - 1)

----------------------------------------------------------------------------
(* C1: linear strategy -- after apply, every level present in the topology *)
(* holds the bit field of its width taken from the normalized address in   *)
(* the order channel, row, bank, bankgroup, pseudochannel, column (absent  *)
(* optional levels take no bits); the regression geometry has column width *)
(* 7 and shift 6 and maps 0x1000 to channel 0, row 4, bank 0, column 0.    *)
C1_LinearSlicing ==
  (impl = Linear /\ ApplyReturned) =>
    /\ \A k \in 1..Len(ClaimOrder) :
         m_idx[ClaimOrder[k]] >= 0 =>
           ClaimSlot(k) = (Normalized \div (2 ^ ClaimOffset(k))) % (2 ^ ClaimWidth(k))
    /\ (m_num_levels = 4 /\ m_addr_bits[3] = 15) =>
         /\ m_addr_bits = <<4, 4, 15, 7>>
         /\ m_tx_offset = 6
         /\ req.addr = 4096 => req.addr_vec = <<0, 0, 4, 0>>

(* C2: grouped strategy -- the channel in slot 0 is groupId * A + intraId, *)
(* A the active channels (at most the total), intraId the low log2(A) bits *)
(* of the normalized address, groupId the log2(total/A) bits from position *)
(* max(0, groupSelectBitPosition - shift); both stay in range, and with    *)
(* A = total the channel is intraId alone.                                 *)
C2_GroupedChannel ==
  (impl = Grouped /\ ApplyReturned) =>
    LET C       == m_total_channels
        A       == IF m_active_channels <= C THEN m_active_channels ELSE C
        G       == C \div A
        pos     == IF m_group_sel_lsb > m_tx_offset THEN m_group_sel_lsb - m_tx_offset ELSE 0
        intraId == Normalized % A
        groupId == (Normalized \div (2 ^ pos)) % G
    IN /\ req.addr_vec[1] = groupId * A + intraId
       /\ 0 <= intraId /\ intraId < A
       /\ 0 <= groupId /\ groupId < G
       /\ A = C => (groupId = 0 /\ req.addr_vec[1] = intraId)

\* C2's case: 32 channels in two groups of 16, an address in group 1.
C2_Witness ==
  /\ impl = Grouped /\ ApplyReturned
  /\ m_total_channels = 32 /\ m_tx_offset = 6
  /\ req.addr_vec[1] = 21

(* C3: grouped versus linear on the same device and address -- every slot  *)
(* but the channel's holds what the linear strategy puts there.            *)
C3_RestAsLinear ==
  (impl = Grouped /\ ApplyReturned /\ DeviceValid(m_dram)) =>
    LET g   == BuildLinear(FreshLinear, Devices[m_dram])
        lin == LinearVec(g, req.addr)
    IN /\ Len(req.addr_vec) = Len(lin)
       /\ \A i \in 1..Len(lin) : i # g.idx.channel + 1 => req.addr_vec[i] = lin[i]

(* C4 as stated: linear strategy round trip -- the slots put back in        *)
(* reverse slicing order give exactly the normalized address.              *)
C4_RoundTripExact ==
  (impl = Linear /\ ApplyReturned) => Reconstruct(1) = Normalized

(* C4 as amended: the slots put back give the normalized address modulo    *)
(* 2^sum(bitsPerLevel); address bits above the mapped capacity are dropped.*)
C4_RoundTripLowBits ==
  (impl = Linear /\ ApplyReturned) =>
    Reconstruct(1) = Normalized % (2 ^ ClaimOffset(Len(ClaimOrder) + 1))

\* C4's case: a mapped address beyond the capacity of the geometry.
C4_Witness ==
  /\ impl = Linear /\ ApplyReturned
  /\ Normalized >= 2 ^ ClaimOffset(Len(ClaimOrder) + 1)
  /\ Reconstruct(1) > 0

(* C5: either strategy -- building the geometry from a device model with   *)
(* no counts, a count/level mismatch or a missing mandatory level ends in  *)
(* an error, leaves the geometry unbuilt, and no apply writes a vector.    *)
C5_FailsFast ==
  [][ /\ (impl = Linear /\ last'.op = "apply" /\ ~m_ready
            /\ m_dram \in DeviceIds /\ ~DeviceValid(m_dram))
         => (last'.status = "error" /\ ~m_ready' /\ req'.addr_vec \in StaleVecs)
      /\ (impl = Grouped /\ last'.op = "setup" /\ ~DeviceValid(m_dram'))
         => last'.status = "error"
      /\ (impl = Grouped /\ last'.op = "apply"
            /\ m_dram \in DeviceIds /\ ~DeviceValid(m_dram))
         => req'.addr_vec \in StaleVecs
    ]_vars

(* C6: either strategy -- after apply returns, the vector has levelCount   *)
(* slots and every level's slot holds an index in 0 .. 2^bits - 1 (no      *)
(* level of the topology is left at -1).                                   *)
C6_VectorFilled ==
  ApplyReturned =>
    /\ Len(req.addr_vec) = m_num_levels
    /\ \A i \in 1..m_num_levels :
         0 <= req.addr_vec[i] /\ req.addr_vec[i] < 2 ^ m_addr_bits[i]

(* C7: either strategy -- an apply call with the address of the previous   *)
(* call, under the same geometry, leaves the same vector, whatever the     *)
(* request's vector held before and whatever the call counters are.        *)
C7_Deterministic ==
  [][ (ApplyReturned /\ ApplyStep /\ req'.addr = req.addr /\ Geometry' = Geometry)
        => req'.addr_vec = req.addr_vec ]_vars

(* C8: either strategy -- apply maps only with the geometry built, and     *)
(* once built the geometry is never changed by a later setup or apply.     *)
C8_BuiltOnce ==
  [][ /\ ApplyStep => Built'
      /\ Built => (Built' /\ Geometry' = Geometry) ]_vars

(* C9: either strategy -- the geometry a build leaves has the column width *)
(* max(0, log2(column count) - log2(prefetch)), never negative.            *)
C9_ColumnWidth ==
  [][ LET dev == IF impl = Linear THEN m_dram ELSE m_dram'
          d   == Devices[dev]
          col == LevelIndex(d, "column")
          raw == calc_log2(d.count[col + 1])
          p   == calc_log2(d.prefetch)
      IN ( /\ \/ impl = Linear /\ ~m_ready /\ m_ready'
              \/ impl = Grouped /\ last' = [op |-> "setup", status |-> "ok"]
           /\ DeviceValid(dev) )
         => m_addr_bits'[col + 1] = (IF raw - p > 0 THEN raw - p ELSE 0)
    ]_vars

(* C10 as stated: grouped strategy, no aliasing -- with a power-of-two     *)
(* channel count, two addresses that differ within the low                 *)
(* sum(bitsPerLevel) bits of their normalized values never get the same    *)
(* vector.                                                                 *)
C10_NoAliasing ==
  [][ ( /\ impl = Grouped /\ ApplyReturned /\ ApplyStep
        /\ Geometry' = Geometry
        /\ DeviceValid(m_dram) /\ m_dram' = m_dram
        /\ IsPow2(m_total_channels)
        /\ (req.addr \div 2 ^ m_tx_offset) % 2 ^ SumBits(m_num_levels)
             # (req'.addr \div 2 ^ m_tx_offset) % 2 ^ SumBits(m_num_levels) )
      => req'.addr_vec # req.addr_vec ]_vars

(* C10 as amended: with a power-of-two channel count, when there is one    *)
(* group or the rebased group-select position equals log2(activeChannels), *)
(* the channel is exactly the low log2(totalChannels) bits of the          *)
(* normalized address, the bits apply then discards.                       *)
C10_ChannelIsLowField ==
  (impl = Grouped /\ ApplyReturned /\ IsPow2(m_total_channels)) =>
    LET C   == m_total_channels
        A   == IF m_active_channels <= C THEN m_active_channels ELSE C
        pos == IF m_group_sel_lsb > m_tx_offset THEN m_group_sel_lsb - m_tx_offset ELSE 0
    IN (C = A \/ 2 ^ pos = A) => req.addr_vec[1] = Normalized % (2 ^ m_addr_bits[1])

\* C10's case: two groups, the group bit right above the intra-group bits,
\* and an address of the upper group.
C10_Witness ==
  /\ impl = Grouped /\ ApplyReturned
  /\ m_total_channels = 2 * m_active_channels
  /\ m_group_sel_lsb - m_tx_offset = calc_log2(m_active_channels)
  /\ req.addr_vec[1] >= m_active_channels

====
